---- MODULE Spec2Model ----
(***************************************************************************)
(* A model of orgroamtocosma.py: the batch conversion of an Org-roam vault *)
(* into Cosma Markdown notes.                                              *)
(*                                                                         *)
(* Text is modelled character by character: a Python str is a sequence of  *)
(* one-character strings, so that the regular expressions, str.replace,    *)
(* str.strip, Path.stem and clean_filename are computed as the code        *)
(* computes them.                                                          *)
(***************************************************************************)
EXTENDS Integers, Sequences, FiniteSets

---------------------------------------------------------------------------
(* Literals of the source. *)

NL == "\n"

S_TITLE == <<"#", "+", "t", "i", "t", "l", "e", ":">>
S_FILETAGS == <<"#", "+", "f", "i", "l", "e", "t", "a", "g", "s", ":">>
S_ID == <<":", "I", "D", ":">>
S_ROAMKEY == <<"#", "+", "r", "o", "a", "m", "_", "k", "e", "y", ":">>
S_idscheme == <<"i", "d", ":">>
S_filescheme == <<"f", "i", "l", "e", ":">>
S_http == <<"h", "t", "t", "p", ":", "/", "/">>
S_https == <<"h", "t", "t", "p", "s", ":", "/", "/">>
S_PROPERTIES == <<":", "P", "R", "O", "P", "E", "R", "T", "I", "E", "S", ":">>
S_END == <<":", "E", "N", "D", ":">>
S_META == <<"#", "+">>
S_ORG == <<".", "o", "r", "g">>
S_MD == <<".", "m", "d">>
S_OPEN == <<"[", "[">>
S_CLOSE == <<"]", "]">>
S_OPENFILE == <<"[", "[", "f", "i", "l", "e", ":">>
S_DASHES == <<"-", "-", "-", "\n">>
S_FM_TITLE == <<"t", "i", "t", "l", "e", ":", " ">>
S_FM_ID == <<"i", "d", ":", " ">>
S_FM_TAGS == <<"t", "a", "g", "s", ":", " ", "[">>
S_COMMASP == <<",", " ">>
S_IMG == <<"!", "[", "]", "(">>
S_CSVNAME == <<"_", "t", "i", "t", "l", "e", "2", "i", "d", ".", "c", "s", "v">>
S_CRLF == <<"\r", "\n">>

\* The image extensions of convert_images, in the order of the alternation.
ImageExts == << <<"p", "n", "g">>, <<"j", "p", "g">>, <<"j", "p", "e", "g">>,
                <<"g", "i", "f">> >>

\* Python's None (a match that failed, a group that did not take part).
None == <<"None">>

\* x is true in a Python condition: neither None nor the empty string.
Truthy(x) == x # None /\ x # <<>>

\* Python's `a or b`.
Or(a, b) == IF Truthy(a) THEN a ELSE b

---------------------------------------------------------------------------
(* str and re primitives. *)

Min(S) == CHOOSE x \in S : \A y \in S : x <= y
Max(S) == CHOOSE x \in S : \A y \in S : x >= y

\* The characters \s and str.strip() take for whitespace (those of the inputs).
Whitespace == {" ", "\t", "\n", "\r"}

\* pat occurs in s at position p.
StartsAt(s, p, pat) ==
    /\ p >= 1
    /\ p + Len(pat) - 1 <= Len(s)
    /\ \A k \in 1..Len(pat) : s[p + k - 1] = pat[k]

startswith(s, pat) == StartsAt(s, 1, pat)

endswith(s, pat) == Len(pat) <= Len(s) /\ StartsAt(s, Len(s) - Len(pat) + 1, pat)

\* s[p:], 1-based.
From(s, p) == SubSeq(s, p, Len(s))

\* The least position >= from where pat occurs in s, or 0.
Find(s, pat, from) ==
    LET ps == {p \in from..Len(s) : StartsAt(s, p, pat)}
    IN  IF ps = {} THEN 0 ELSE Min(ps)

\* pat occurs somewhere in s (Python's `pat in s`).
Contains(s, pat) == \E p \in 1..(Len(s) + 1) : StartsAt(s, p, pat)

\* str.replace(old, new): every non-overlapping occurrence, left to right.
RECURSIVE str_replace(_, _, _)
str_replace(s, old, new) ==
    IF Find(s, old, 1) = 0 THEN s
    ELSE SubSeq(s, 1, Find(s, old, 1) - 1) \o new
         \o str_replace(From(s, Find(s, old, 1) + Len(old)), old, new)

\* str.strip().
strip(s) ==
    LET ps == {p \in 1..Len(s) : s[p] \notin Whitespace}
    IN  IF ps = {} THEN <<>> ELSE SubSeq(s, Min(ps), Max(ps))

\* str.split(sep) for a one-character separator.
RECURSIVE split(_, _)
split(s, sep) ==
    LET ps == {p \in 1..Len(s) : s[p] = sep}
    IN  IF ps = {} THEN <<s>>
        ELSE <<SubSeq(s, 1, Min(ps) - 1)>> \o split(From(s, Min(ps) + 1), sep)

\* sep.join(parts).
RECURSIVE join(_, _)
join(parts, sep) ==
    IF parts = <<>> THEN <<>>
    ELSE IF Len(parts) = 1 THEN parts[1]
    ELSE parts[1] \o sep \o join(Tail(parts), sep)

\* re.MULTILINE's ^ : the start of the text or just after a newline.
AtLineStart(s, p) == p = 1 \/ s[p - 1] = NL

\* The last position of the line that position p is on (p - 1 if the line
\* is empty at p): where re.MULTILINE's $ matches after a greedy `.*`.
LineEnd(s, p) ==
    LET ns == {q \in p..Len(s) : s[q] = NL}
    IN  IF ns = {} THEN Len(s) ELSE Min(ns) - 1

\* re.search(r"^<key>\s*(.+)$", s, re.MULTILINE): group(1) of the leftmost
\* match, or None. At a line start where key occurs, the greedy \s* runs over
\* all whitespace (newlines too) and backtracks to the last position whose
\* character is not a newline, where (.+) takes the rest of that line.
FieldAt(s, p, key) ==
    LET a  == p + Len(key)
        gs == {g \in a..Len(s) :
                  /\ s[g] # NL
                  /\ \A q \in a..(g - 1) : s[q] \in Whitespace}
    IN  IF gs = {} THEN None
        ELSE SubSeq(s, Max(gs), LineEnd(s, Max(gs)))

re_search_field(s, key) ==
    LET ps == {p \in 1..Len(s) :
                  /\ AtLineStart(s, p)
                  /\ StartsAt(s, p, key)
                  /\ FieldAt(s, p, key) # None}
    IN  IF ps = {} THEN None ELSE FieldAt(s, Min(ps), key)

---------------------------------------------------------------------------
(* Helper functions of the source. *)

\* unicodedata.normalize("NFD", c).encode("ascii", "ignore") of one
\* character: an ASCII character is kept, an accented letter keeps its base
\* letter (the combining mark is dropped), any other character is dropped.
AsciiFold(c) ==
    CASE c = "é" -> <<"e">>
      [] c = "ó" -> <<"o">>
      [] c = "ø" -> <<>>
      [] OTHER   -> <<c>>

RECURSIVE NfdAscii(_)
NfdAscii(s) == IF s = <<>> THEN <<>> ELSE AsciiFold(Head(s)) \o NfdAscii(Tail(s))

clean_filename(name) == str_replace(NfdAscii(name), <<" ">>, <<"-">>)

\* PurePath(s).name: the last component of the path; empty and "."
\* components are dropped by the parse.
RECURSIVE PathName(_)
PathName(s) ==
    IF s = <<>> THEN <<>>
    ELSE IF s[Len(s)] = "/" THEN PathName(SubSeq(s, 1, Len(s) - 1))
    ELSE LET cut  == Max({p \in 1..Len(s) : s[p] = "/"} \cup {0})
             last == From(s, cut + 1)
         IN  IF last = <<".">> THEN PathName(SubSeq(s, 1, cut)) ELSE last

\* Path(s).stem: the name without its last suffix; a dot that starts or ends
\* the name begins no suffix.
PathStem(s) ==
    LET name == PathName(s)
        dots == {p \in 1..Len(name) : name[p] = "."}
    IN  IF dots # {} /\ 1 < Max(dots) /\ Max(dots) < Len(name)
        THEN SubSeq(name, 1, Max(dots) - 1)
        ELSE name

---------------------------------------------------------------------------
(* The title index: a Python dict, which keeps its keys in the order of their
   first insertion. Modelled as a sequence of <<key, value>> pairs. *)

DictKeys(d) == {d[n][1] : n \in 1..Len(d)}

DictValues(d) == {d[n][2] : n \in 1..Len(d)}

\* d[k], for k a key of d.
DictGet(d, k) == d[CHOOSE n \in 1..Len(d) : d[n][1] = k][2]

\* d[k] = v.
DictSet(d, k, v) ==
    IF k \in DictKeys(d)
    THEN [n \in 1..Len(d) |-> IF d[n][1] = k THEN <<k, v>> ELSE d[n]]
    ELSE Append(d, <<k, v>>)

---------------------------------------------------------------------------
(* Org file parsing. *)

\* The non-empty stripped pieces of a colon-separated tag list.
RECURSIVE StripNonEmpty(_)
StripNonEmpty(parts) ==
    IF parts = <<>> THEN <<>>
    ELSE IF strip(Head(parts)) # <<>>
         THEN <<strip(Head(parts))>> \o StripNonEmpty(Tail(parts))
         ELSE StripNonEmpty(Tail(parts))

\* tags_match and the list built from it. The pattern's optional colons only
\* trim empty pieces, which the filter drops anyway, so the tags are the
\* non-empty pieces of the rest of the line.
parse_tags(content) ==
    LET rest == re_search_field(content, S_FILETAGS)
    IN  IF rest = None THEN <<>> ELSE StripNonEmpty(split(rest, ":"))

StripOrNone(group) == IF group = None THEN None ELSE strip(group)

parse_id(content) ==
    LET id_     == StripOrNone(re_search_field(content, S_ID))
        roamkey == re_search_field(content, S_ROAMKEY)
    IN  IF ~Truthy(id_) /\ roamkey # None THEN strip(roamkey) ELSE id_

parse_org_frontmatter(content) ==
    [title |-> StripOrNone(re_search_field(content, S_TITLE)),
     tags  |-> parse_tags(content),
     id    |-> parse_id(content)]

---------------------------------------------------------------------------
(* Link and image translation. *)

\* The two reference forms and the placeholder.
Reference(id_, label, zettlr) ==
    IF zettlr
    THEN <<"[">> \o label \o <<"]", "(">> \o S_OPEN \o id_ \o S_CLOSE \o <<")">>
    ELSE S_OPEN \o id_ \o <<"|">> \o label \o S_CLOSE

Placeholder(label) == S_OPEN \o label \o S_CLOSE

Hyperlink(label, target) ==
    <<"[">> \o label \o <<"]", "(">> \o target \o <<")">>

\* The file-scheme branch of repl: the key looked up in the index.
file_ref(target) == clean_filename(PathStem(str_replace(target, S_filescheme, <<>>)))

\* The identifier-scheme branch of repl: the identifier used.
id_ref(target) == str_replace(target, S_idscheme, <<>>)

\* repl on an Org id link.
repl_id(target, label, zettlr) == Reference(id_ref(target), label, zettlr)

\* A file link that is not in the index, rendered as a reference without
\* identifier (a mutation of repl_file).
repl_file_blank_reference(target, label, title2id, zettlr) ==
    IF file_ref(target) \in DictKeys(title2id)
    THEN Reference(DictGet(title2id, file_ref(target)), label, zettlr)
    ELSE Reference(<<>>, label, zettlr)

\* repl on an Org file link.
repl_file(target, label, title2id, zettlr) ==
    IF file_ref(target) \in DictKeys(title2id)
    THEN Reference(DictGet(title2id, file_ref(target)), label, zettlr)
    ELSE Placeholder(label)

\* convert_org_links.repl: group1 and group2 are the match's groups, group2
\* None when the link has no label part.
repl(group1, group2, title2id, zettlr) ==
    LET target == group1
        label  == Or(group2, group1)
    IN  IF startswith(target, S_idscheme)
        THEN repl_id(target, label, zettlr)
        ELSE IF startswith(target, S_filescheme)
        THEN repl_file(target, label, title2id, zettlr)
        ELSE IF startswith(target, S_http) \/ startswith(target, S_https)
        THEN Hyperlink(label, target)
        ELSE Placeholder(label)

NoMatch == [ok |-> FALSE]

\* A match of \[\[([^\]]+?)\](?:\[([^\]]+)\])?\] that starts at p. Group 1
\* holds no "]", so it ends just before the first one; then either a label
\* part "[...]" and a "]" follow, or a "]" does.
LinkAt(s, p) ==
    IF ~StartsAt(s, p, S_OPEN) THEN NoMatch
    ELSE LET c1 == Find(s, <<"]">>, p + 2)
         IN  IF c1 = 0 \/ c1 = p + 2 THEN NoMatch
             ELSE IF StartsAt(s, c1 + 1, <<"[">>)
             THEN LET c2 == Find(s, <<"]">>, c1 + 2)
                  IN  IF c2 = 0 \/ c2 = c1 + 2 \/ ~StartsAt(s, c2 + 1, <<"]">>)
                      THEN NoMatch
                      ELSE [ok |-> TRUE, start |-> p, last |-> c2 + 1,
                            group1 |-> SubSeq(s, p + 2, c1 - 1),
                            group2 |-> SubSeq(s, c1 + 2, c2 - 1)]
             ELSE IF StartsAt(s, c1 + 1, <<"]">>)
             THEN [ok |-> TRUE, start |-> p, last |-> c1 + 1,
                   group1 |-> SubSeq(s, p + 2, c1 - 1), group2 |-> None]
             ELSE NoMatch

\* The matches re.sub finds from position p on: leftmost first, not
\* overlapping.
RECURSIVE LinkMatches(_, _)
LinkMatches(s, p) ==
    LET qs == {q \in p..Len(s) : LinkAt(s, q).ok}
    IN  IF qs = {} THEN <<>>
        ELSE <<LinkAt(s, Min(qs))>> \o LinkMatches(s, LinkAt(s, Min(qs)).last + 1)

\* s with every match replaced by what repl returns for it.
RECURSIVE SubLinks(_, _, _, _, _)
SubLinks(s, p, ms, title2id, zettlr) ==
    IF ms = <<>> THEN From(s, p)
    ELSE SubSeq(s, p, Head(ms).start - 1)
         \o repl(Head(ms).group1, Head(ms).group2, title2id, zettlr)
         \o SubLinks(s, Head(ms).last + 1, Tail(ms), title2id, zettlr)

convert_org_links(content, title2id, zettlr) ==
    SubLinks(content, 1, LinkMatches(content, 1), title2id, zettlr)

\* A match of \[\[file:(.+?\.(?:png|jpg|jpeg|gif))\]\] that starts at p: the
\* lazy .+? stops at the first dot of the line that an image extension and
\* "]]" follow; it crosses no newline.
ImageAt(s, p) ==
    IF ~StartsAt(s, p, S_OPENFILE) THEN NoMatch
    ELSE LET a    == p + Len(S_OPENFILE)
             ends == {e \in (a + 2)..LineEnd(s, a) :
                        \E n \in 1..Len(ImageExts) :
                           /\ e - Len(ImageExts[n]) >= a + 1
                           /\ StartsAt(s, e - Len(ImageExts[n]),
                                       <<".">> \o ImageExts[n])
                           /\ StartsAt(s, e + 1, S_CLOSE)}
         IN  IF ends = {} THEN NoMatch
             ELSE [ok |-> TRUE, start |-> p, last |-> Min(ends) + 2,
                   group1 |-> SubSeq(s, a, Min(ends))]

\* re.sub(pattern, r"![](\1)", s) from position p on: leftmost match first,
\* not overlapping.
RECURSIVE SubImages(_, _)
SubImages(s, p) ==
    LET qs == {q \in p..Len(s) : ImageAt(s, q).ok}
    IN  IF qs = {} THEN From(s, p)
        ELSE SubSeq(s, p, Min(qs) - 1)
             \o S_IMG \o ImageAt(s, Min(qs)).group1 \o <<")">>
             \o SubImages(s, ImageAt(s, Min(qs)).last + 1)

convert_images(content) == SubImages(content, 1)

---------------------------------------------------------------------------
(* Metadata stripping. *)

\* re.sub(r"^#\+.*$", "", content, flags=re.MULTILINE): the text of every
\* line that starts with "#+" is deleted, its newline kept.
RECURSIVE SubMetaLines(_, _)
SubMetaLines(s, p) ==
    LET qs == {q \in p..Len(s) : AtLineStart(s, q) /\ StartsAt(s, q, S_META)}
    IN  IF qs = {} THEN From(s, p)
        ELSE SubSeq(s, p, Min(qs) - 1) \o SubMetaLines(s, LineEnd(s, Min(qs)) + 1)

\* re.sub(r"^:PROPERTIES:[\s\S]*?:END:", "", content, flags=re.MULTILINE):
\* re.sub replaces every match; each runs from a ":PROPERTIES:" at a line
\* start to the first ":END:" after it.
\* Where the property block that starts at q ends, 0 when none starts there.
PropertyBlockEnd(s, q) ==
    IF AtLineStart(s, q) /\ StartsAt(s, q, S_PROPERTIES)
       /\ Find(s, S_END, q + Len(S_PROPERTIES)) # 0
    THEN Find(s, S_END, q + Len(S_PROPERTIES)) + Len(S_END) - 1
    ELSE 0

\* Only the first property block deleted, as re.sub with count=1 would (a
\* mutation of SubPropertyBlocks).
SubFirstPropertyBlock(s, p) ==
    LET qs == {q \in p..Len(s) : PropertyBlockEnd(s, q) # 0}
    IN  IF qs = {} THEN From(s, p)
        ELSE SubSeq(s, p, Min(qs) - 1) \o From(s, PropertyBlockEnd(s, Min(qs)) + 1)

RECURSIVE SubPropertyBlocks(_, _)
SubPropertyBlocks(s, p) ==
    LET qs == {q \in p..Len(s) : PropertyBlockEnd(s, q) # 0}
    IN  IF qs = {} THEN From(s, p)
        ELSE SubSeq(s, p, Min(qs) - 1)
             \o SubPropertyBlocks(s, PropertyBlockEnd(s, Min(qs)) + 1)

remove_org_metadata(content) ==
    strip(SubPropertyBlocks(SubMetaLines(content, 1), 1))

---------------------------------------------------------------------------
(* Output. *)

frontmatter(title, id_, tags) ==
    S_DASHES
    \o S_FM_TITLE \o title \o <<NL>>
    \o S_FM_ID \o id_ \o <<NL>>
    \o (IF tags # <<>> THEN S_FM_TAGS \o join(tags, S_COMMASP) \o <<"]", NL>> ELSE <<>>)
    \o S_DASHES \o <<NL>>

out_name(title) == clean_filename(PathStem(title)) \o S_MD

\* csv.writer's field (the excel dialect, QUOTE_MINIMAL): quoted, with its
\* quotes doubled, when it holds the delimiter, a quote or a line break.
csv_field(f) ==
    IF \E p \in 1..Len(f) : f[p] \in {",", "\"", "\r", "\n"}
    THEN <<"\"">> \o str_replace(f, <<"\"">>, <<"\"", "\"">>) \o <<"\"">>
    ELSE f

\* writer.writerows(title2id.items()): one line per item, in the dict's order.
RECURSIVE writerows(_)
writerows(items) ==
    IF items = <<>> THEN <<>>
    ELSE csv_field(Head(items)[1]) \o <<",">> \o csv_field(Head(items)[2]) \o S_CRLF
         \o writerows(Tail(items))

\* os.path.join(folder, name) for a relative name.
path_join(folder, name) == folder \o <<"/">> \o name

---------------------------------------------------------------------------
(* Identifier generation. *)

\* The calendar day of the run, as strftime('%Y%m%d') prints it.
Today == <<"2", "0", "2", "6", "1", "1", "0", "3">>

Digit == <<"0", "1", "2", "3", "4", "5", "6", "7", "8", "9">>

TwoDigits(n) == <<Digit[(n \div 10) + 1], Digit[(n % 10) + 1]>>

\* dt.fromtimestamp(t).strftime('%Y%m%d%H%M%S'), t counted in seconds from
\* the start of Today.
strftime(t) ==
    Today \o TwoDigits(t \div 3600) \o TwoDigits((t \div 60) % 60) \o TwoDigits(t % 60)

\* create_id: the timestamp is the file's creation date when
\* args.creationdate is set, else the wall clock read at the call.
create_id(ctime, now, creationdate) ==
    strftime(IF creationdate THEN ctime ELSE now)

---------------------------------------------------------------------------
(* Bounds and inputs. *)

\* The most files the input tree holds.
MaxFiles == 3

\* The seconds the wall clock may advance during a run.
MaxTick == 1

\* The wall clock (seconds into Today) when the run starts: 10:59:59.
StartClock == 39599

input_folder == <<"i", "n">>
output_folder == <<"o", "u", "t">>

\* A property drawer, an :ID: line and a #+title: line, as Org-roam writes them.
Drawer(lines) == S_PROPERTIES \o <<NL>> \o lines \o S_END \o <<NL>>
IdLine(v) == S_ID \o <<" ", " ">> \o v \o <<NL>>
TitleLine(t) == S_TITLE \o <<" ">> \o t \o <<NL>>
KeyLine(v) == S_ROAMKEY \o <<" ">> \o v \o <<NL>>

\* An input file: its path under the input folder, its creation time and its
\* text, composed of an optional drawer with the note's :ID:, an optional
\* #+title: line, an optional #+roam_key: line and the rest. The three
\* properties are kept beside the text.
File(name, ctime, id_prop, title_prop, key_prop, rest) ==
    [path       |-> path_join(input_folder, name),
     ctime      |-> ctime,
     id_prop    |-> id_prop,
     title_prop |-> title_prop,
     key_prop   |-> key_prop,
     text       |-> (IF id_prop = None THEN <<>> ELSE Drawer(IdLine(id_prop)))
                    \o (IF title_prop = None THEN <<>> ELSE TitleLine(title_prop))
                    \o (IF key_prop = None THEN <<>> ELSE KeyLine(key_prop))
                    \o rest]

\* Intro.org: title "Intro", id "1".
NoteA == File(<<"I", "n", "t", "r", "o", ".", "o", "r", "g">>, 39000, <<"1">>,
              <<"I", "n", "t", "r", "o">>, None, <<"x", NL>>)

\* b.org: title "Next", id "2", tags a and b; links to a note by id, to a
\* file that does not exist, to the note titled Intro by file, to an image
\* without a label; then a heading with a property drawer of its own.
NoteB == File(<<"b", ".", "o", "r", "g">>, 39000, <<"2">>,
              <<"N", "e", "x", "t">>, None,
              <<"#", "+", "f", "i", "l", "e", "t", "a", "g", "s", ":", " ", ":", "a", ":", "b", ":", NL>>
              \o <<"[", "[", "i", "d", ":", "1", "]", "[", "F", "o", "o", "]", "]", " ", "[", "[", "f", "i", "l", "e", ":", "z", "z", ".", "o", "r", "g", "]", "[", "Z", "]", "]", NL>>
              \o <<"[", "[", "f", "i", "l", "e", ":", "I", "n", "t", "r", "o", ".", "o", "r", "g", "]", "[", "I", "]", "]", " ", "[", "[", "f", "i", "l", "e", ":", "p", "i", "c", ".", "p", "n", "g", "]", "]", NL>>
              \o <<"*", " ", "h", NL>> \o Drawer(IdLine(<<"3">>)) \o <<"t", NL>>)

\* pic.org: no title, no identifier; a web link and a bare link.
NotePic == File(<<"p", "i", "c", ".", "o", "r", "g">>, 39001, None, None, None,
                <<"[", "[", "h", "t", "t", "p", "s", ":", "/", "/", "x", ".", "y", "]", "[", "W", "]", "]", " ", "[", "[", "z", "z", "]", "]", NL>>)

\* sub/d.org: title "Intró" (the cleaned title of Intro.org), the legacy key
\* "k9"; a link to the identifier "aid:7".
NoteD == File(<<"s", "u", "b", "/", "d", ".", "o", "r", "g">>, 39002, None,
              <<"I", "n", "t", "r", "ó">>, <<"k", "9">>,
              <<"[", "[", "i", "d", ":", "a", "i", "d", ":", "7", "]", "[", "L", "]", "]", NL>>)

\* e.org: title "Intro.x", id "5".
NoteE == File(<<"e", ".", "o", "r", "g">>, 39003, <<"5">>,
              <<"I", "n", "t", "r", "o", ".", "x">>, None, <<"y", NL>>)

\* f.org: title "T", no identifier.
NoteF == File(<<"f", ".", "o", "r", "g">>, 39004, None, <<"T">>, None, <<"u", NL>>)

\* pic.png: a file that is no note.
ImagePic == File(<<"p", "i", "c", ".", "p", "n", "g">>, 39005, None, None, None, <<>>)

Pool == {NoteA, NoteB, NotePic, NoteD, NoteE, NoteF, ImagePic}

PoolPaths == {f.path : f \in Pool}

\* The file at a path of the input tree.
FileAt(path) == CHOOSE f \in Pool : f.path = path

\* The directory part of a path.
DirName(path) == SubSeq(path, 1, Max({p \in 1..Len(path) : path[p] = "/"} \cup {0}))

\* The orders os.walk (top-down) can list the paths of S in: any, but a
\* directory's files come before those of its subdirectories.
WalkOrders(S) ==
    {seq \in [1..Cardinality(S) -> S] :
        /\ \A m, n \in 1..Cardinality(S) : m # n => seq[m] # seq[n]
        /\ \A m, n \in 1..Cardinality(S) :
              m < n => ~(/\ DirName(seq[n]) # DirName(seq[m])
                         /\ startswith(DirName(seq[m]), DirName(seq[n])))}

---------------------------------------------------------------------------
(* The run of main. *)

VARIABLES
    fs,            \* the paths of the files of the input tree
    zettlr,        \* args.zettlr is set
    creationdate,  \* args.creationdate is set
    pc,            \* where main is: collect, index, export, save, done, error
    org_files,     \* the list of the paths of the collected note files
    title2id,      \* the title index
    i,             \* the position of the running loop in org_files
    clock,         \* the wall clock, in seconds into Today
    out,           \* the files of the output folder: path -> text
    written,       \* what step 3 computed and wrote, per exported note
    csvfile        \* the text of _title2id.csv, None before it is written

vars == <<fs, zettlr, creationdate, pc, org_files, title2id, i, clock, out,
          written, csvfile>>

Init ==
    /\ fs \in {S \in SUBSET PoolPaths : Cardinality(S) <= MaxFiles}
    /\ zettlr \in BOOLEAN
    /\ creationdate \in BOOLEAN
    /\ pc = "collect"
    /\ org_files = <<>>
    /\ title2id = <<>>
    /\ i = 1
    /\ clock = StartClock
    /\ out = <<>>
    /\ written = <<>>
    /\ csvfile = None

\* infile.read(): the text from the handle's position to the end.
file_read(text, pos) == SubSeq(text, pos, Len(text))

\* Step 1: the files of the tree whose name ends in ".org", in walk order.
Collect ==
    /\ pc = "collect"
    /\ org_files' \in WalkOrders({f \in fs : endswith(f, S_ORG)})
    /\ pc' = IF org_files' = <<>> THEN "save" ELSE "index"
    /\ UNCHANGED <<fs, zettlr, creationdate, title2id, i, clock, out, written, csvfile>>

\* The key step 2 files a note under.
index_key(title) == clean_filename(title)

\* The loop of step 2 left after its first file (a mutation of
\* index_pass_done).
index_pass_done_early(n) == n >= 1

\* The loop of step 2 ends after the file at position n.
index_pass_done(n) == n = Len(org_files)

\* What one iteration of step 2 reads of the file at path f: the file is
\* read twice through the same handle, the first read is printed, and the
\* metadata are parsed from the second.
indexed(f) ==
    LET printed == file_read(FileAt(f).text, 1)
        content == file_read(FileAt(f).text, 1 + Len(printed))
        meta    == parse_org_frontmatter(content)
    IN  [title |-> Or(meta.title, PathStem(f)), id |-> meta.id]

\* Step 2, one file: its identifier (its own, else a generated one) is filed
\* under its cleaned title.
IndexNote ==
    /\ pc = "index"
    /\ \E note \in {indexed(org_files[i])} :
       \E now \in clock..(IF Truthy(note.id) \/ creationdate
                          THEN clock ELSE StartClock + MaxTick) :
          /\ clock' = now
          /\ title2id' = DictSet(title2id, index_key(note.title),
                                 Or(note.id, create_id(FileAt(org_files[i]).ctime,
                                                       now, creationdate)))
    /\ IF index_pass_done(i)
       THEN pc' = "export" /\ i' = 1
       ELSE pc' = pc /\ i' = i + 1
    /\ UNCHANGED <<fs, zettlr, creationdate, org_files, out, written, csvfile>>

\* The index consulted before the note's own identifier (a mutation of
\* export_id).
export_id_index_first(meta, title) ==
    IF clean_filename(title) \in DictKeys(title2id)
    THEN DictGet(title2id, clean_filename(title))
    ELSE meta.id

\* The identifier step 3 gives a note.
export_id(meta, title) ==
    IF Truthy(meta.id) THEN meta.id ELSE DictGet(title2id, clean_filename(title))

\* The note's identifier is missing and its cleaned title is no key of the
\* index: title2id[...] raises KeyError.
lookup_fails(meta, title) ==
    ~Truthy(meta.id) /\ clean_filename(title) \notin DictKeys(title2id)

\* What one iteration of step 3 computes for the file at path f: the parsed
\* metadata, the content after each rewrite, the Markdown text and the path
\* it is written to.
exported(f) ==
    LET content == file_read(FileAt(f).text, 1)
        meta    == parse_org_frontmatter(content)
        title   == Or(meta.title, PathStem(f))
        id_     == export_id(meta, title)
        linked  == convert_org_links(content, title2id, zettlr)
        imaged  == convert_images(linked)
        body    == remove_org_metadata(imaged)
        md      == frontmatter(title, id_, meta.tags) \o body \o <<NL>>
    IN  [raised |-> lookup_fails(meta, title),
         title  |-> title,
         id     |-> IF lookup_fails(meta, title) THEN None ELSE id_,
         linked |-> linked,
         imaged |-> imaged,
         body   |-> body,
         md     |-> IF lookup_fails(meta, title) THEN None ELSE md,
         path   |-> path_join(output_folder, out_name(title))]

\* Step 3, one file: parse, rewrite links and images, strip the Org
\* metadata, prepend the front matter, write the file. The lookup of a note
\* without identifier raises KeyError when its title is no key of the index:
\* the run ends there, before anything of the note is written.
ExportNote ==
    /\ pc = "export"
    /\ \E note \in {exported(org_files[i])} :
          IF note.raised
          THEN /\ pc' = "error"
               /\ UNCHANGED <<i, out, written>>
          ELSE /\ out' = DictSet(out, note.path, note.md)
               /\ written' = Append(written,
                                [title |-> note.title, id |-> note.id,
                                 linked |-> note.linked, imaged |-> note.imaged,
                                 body |-> note.body, md |-> note.md,
                                 path |-> note.path])
               /\ IF i = Len(org_files)
                  THEN pc' = "save" /\ i' = i
                  ELSE pc' = pc /\ i' = i + 1
    /\ UNCHANGED <<fs, zettlr, creationdate, org_files, title2id, clock, csvfile>>

\* Step 4: the index is written to _title2id.csv.
SaveMapping ==
    /\ pc = "save"
    /\ csvfile' = writerows(title2id)
    /\ pc' = "done"
    /\ UNCHANGED <<fs, zettlr, creationdate, org_files, title2id, i, clock, out, written>>

Next == Collect \/ IndexNote \/ ExportNote \/ SaveMapping

Spec == Init /\ [][Next]_vars

---------------------------------------------------------------------------
(* What the properties below speak of. *)

\* The file of the n-th collected note.
Note(n) == FileAt(org_files[n])

\* The title of the note in file f: its #+title:, else the stem of its name.
NoteTitle(f) == IF f.title_prop = None THEN PathStem(f.path) ELSE f.title_prop

\* The key step 2 files the note of f under: its second read of the file is
\* empty, so the title it sees is the stem of the file's name.
FileKey(f) == clean_filename(PathStem(f.path))

\* The links of a text, in order.
Links(text) == LinkMatches(text, 1)

IsIdLink(m) == startswith(m.group1, S_idscheme)
IsFileLink(m) == startswith(m.group1, S_filescheme)

\* What follows the scheme in the link's target.
IdOf(m) == From(m.group1, Len(S_idscheme) + 1)
FileOf(m) == From(m.group1, Len(S_filescheme) + 1)

\* The label of a link, the target when it has none.
LabelOf(m) == IF m.group2 = None THEN m.group1 ELSE m.group2

\* The normalized stem of a file link's target.
LinkStem(m) == clean_filename(PathStem(FileOf(m)))

\* A label-less file link to an image.
IsImageRef(m) ==
    /\ IsFileLink(m)
    /\ m.group2 = None
    /\ \E n \in 1..Len(ImageExts) :
          /\ endswith(m.group1, <<".">> \o ImageExts[n])
          /\ Len(FileOf(m)) > Len(ImageExts[n]) + 1

\* A 14-digit year-month-day-hour-minute-second token.
IsTimestampToken(s) ==
    /\ Len(s) = 14
    /\ \A p \in 1..Len(s) : \E d \in 1..Len(Digit) : s[p] = Digit[d]

\* The property blocks of a text, in order, as pairs of first and last
\* position: from a ":PROPERTIES:" at a line start to the first ":END:"
\* after it, the next one sought after the end of the one before.
RECURSIVE BlockSpans(_, _)
BlockSpans(s, p) ==
    LET qs == {q \in p..Len(s) :
                 /\ AtLineStart(s, q) /\ StartsAt(s, q, S_PROPERTIES)
                 /\ Find(s, S_END, q + Len(S_PROPERTIES)) # 0}
    IN  IF qs = {} THEN <<>>
        ELSE LET e == Find(s, S_END, Min(qs) + Len(S_PROPERTIES)) + Len(S_END) - 1
             IN  <<(<<Min(qs), e>>)>> \o BlockSpans(s, e + 1)

\* The property blocks of a text, in order, as texts.
PropertyBlocks(s) ==
    [b \in 1..Len(BlockSpans(s, 1)) |->
        SubSeq(s, BlockSpans(s, 1)[b][1], BlockSpans(s, 1)[b][2])]

\* The characters of a text that stand in none of its property blocks.
OutsideBlocks(s) ==
    LET spans == BlockSpans(s, 1)
        kept  == SelectSeq([q \in 1..Len(s) |-> q],
                           LAMBDA q : \A b \in 1..Len(spans) :
                                         q < spans[b][1] \/ q > spans[b][2])
    IN  [k \in 1..Len(kept) |-> s[kept[k]]]

\* The text of the n-th written note as metadata stripping finds it: links
\* and images translated, "#+" lines emptied.
Unstripped(n) == SubMetaLines(written[n].imaged, 1)

\* The sequences that list the elements of S once each.
Arrangements(S) ==
    {seq \in [1..Cardinality(S) -> S] :
        \A m, n \in 1..Cardinality(S) : m # n => seq[m] # seq[n]}

\* The exported notes whose cleaned title is t.
WrittenWithTitle(t) ==
    {n \in 1..Len(written) : clean_filename(written[n].title) = t}

---------------------------------------------------------------------------
(* The claims. *)

\* C1: a file-scheme link [[file:X][L]] whose normalized stem equals the
\* normalized title of an input note N is rewritten to the reference form
\* with the identifier written in N's front matter. (Stated as claimed; the
\* code does not meet it.)
C1_FileLinkResolvesToTitledNote ==
    pc = "done" =>
       \A n \in 1..Len(written) :
          LET ms == Links(Note(n).text)
          IN  \A x \in 1..Len(ms) : \A k \in 1..Len(written) :
                 (/\ IsFileLink(ms[x])
                  /\ LinkStem(ms[x]) = clean_filename(NoteTitle(Note(k))))
                 => Contains(written[n].linked,
                             Reference(written[k].id, LabelOf(ms[x]), zettlr))

\* C2: a note whose text has an explicit identifier property is written with
\* front matter whose id is that value, whatever its title, file name and
\* tags and whatever the other notes are.
C2_ExplicitIdKept ==
    \A n \in 1..Len(written) :
       Note(n).id_prop # None =>
          /\ written[n].id = Note(n).id_prop
          /\ startswith(written[n].md,
                        S_DASHES \o S_FM_TITLE \o NoteTitle(Note(n)) \o <<NL>>
                        \o S_FM_ID \o Note(n).id_prop \o <<NL>>)

\* C2's case: a note with an explicit identifier was written in a run that
\* holds a file whose name is that note's title.
C2_Witness ==
    \E n \in 1..Len(written) :
       /\ Note(n).id_prop # None
       /\ clean_filename(written[n].title) \in DictKeys(title2id)

\* C3: a note without identifier property (no :ID:, no #+roam_key:) raises no
\* error and is written with a 14-digit generated token as its id. (Stated
\* as claimed; the code does not meet it.)
C3_MissingIdGetsGeneratedToken ==
    \A n \in 1..Len(org_files) :
       (Note(n).id_prop = None /\ Note(n).key_prop = None) =>
          /\ ~(pc = "error" /\ i = n)
          /\ n <= Len(written) => IsTimestampToken(written[n].id)

\* C4: after a completed run _title2id.csv has exactly one row per distinct
\* normalized note title, pairing it with the identifier written in that
\* note's front matter, and no other row. (Stated as claimed; the code does
\* not meet it.)
C4_CsvPairsTitlesWithIds ==
    pc = "done" =>
       csvfile \in {writerows(rows) :
                      rows \in Arrangements({<<clean_filename(written[n].title), written[n].id>> :
                                                n \in 1..Len(written)})}

\* C5: when the first note is rewritten the index holds an entry for every
\* collected note; the index does not change once the rewrite pass has
\* begun; and a file link to a collected note's file resolves to that file's
\* entry whether the file comes earlier or later in the list.
C5_IndexBuiltBeforeRewrite ==
    [][/\ pc' = "export" =>
             \A n \in 1..Len(org_files') : FileKey(FileAt(org_files'[n])) \in DictKeys(title2id')
       /\ pc \notin {"collect", "index"} => title2id' = title2id
       /\ Len(written') > Len(written) =>
             LET ms == Links(Note(i).text)
             IN  \A x \in 1..Len(ms) : \A k \in 1..Len(org_files) :
                    (IsFileLink(ms[x]) /\ LinkStem(ms[x]) = FileKey(Note(k)))
                    => Contains(written'[Len(written')].linked,
                                Reference(DictGet(title2id, FileKey(Note(k))),
                                          LabelOf(ms[x]), zettlr))
      ]_vars

\* C5's case: the first note of the list has been rewritten, it links to the
\* file of a note that comes later in the list, and the link is resolved.
C5_Witness ==
    /\ pc = "export"
    /\ Len(written) = 1
    /\ LET ms == Links(Note(1).text)
       IN  \E x \in 1..Len(ms) : \E k \in 2..Len(org_files) :
              /\ IsFileLink(ms[x])
              /\ LinkStem(ms[x]) = FileKey(Note(k))
              /\ Contains(written[1].linked,
                          Reference(DictGet(title2id, FileKey(Note(k))),
                                    LabelOf(ms[x]), zettlr))

\* C6: a file-scheme link whose normalized target stem is no key of the index
\* is rewritten to the placeholder [[L]], L the label or else the target, in
\* both link styles, and the placeholder holds no identifier of the index.
C6_UnresolvedFileLinkIsPlaceholder ==
    \A n \in 1..Len(written) :
       LET ms == Links(Note(n).text)
       IN  \A x \in 1..Len(ms) :
              (IsFileLink(ms[x]) /\ LinkStem(ms[x]) \notin DictKeys(title2id)) =>
                 /\ repl(ms[x].group1, ms[x].group2, title2id, zettlr)
                       = Placeholder(LabelOf(ms[x]))
                 /\ Contains(written[n].linked, Placeholder(LabelOf(ms[x])))
                 /\ \A v \in DictValues(title2id) :
                       ~Contains(repl(ms[x].group1, ms[x].group2, title2id, zettlr), v)

\* C6's case: a written note has a labelled file link whose stem is no key of
\* a non-empty index.
C6_Witness ==
    \E n \in 1..Len(written) :
       LET ms == Links(Note(n).text)
       IN  \E x \in 1..Len(ms) :
              /\ IsFileLink(ms[x])
              /\ ms[x].group2 # None
              /\ LinkStem(ms[x]) \notin DictKeys(title2id)
              /\ Contains(written[n].linked, Placeholder(ms[x].group2))

\* C7: an identifier-scheme link [[id:V][L]] is rewritten to the reference
\* form that holds V as the link gives it. (Stated as claimed; the code does
\* not meet it.)
C7_IdLinkKeepsItsIdentifier ==
    \A n \in 1..Len(written) :
       LET ms == Links(Note(n).text)
       IN  \A x \in 1..Len(ms) :
              IsIdLink(ms[x]) =>
                 Contains(written[n].linked,
                          Reference(IdOf(ms[x]), LabelOf(ms[x]), zettlr))

\* C8: a label-less file reference [[file:P]] to an image comes out of link
\* and image translation as the embed ![](P), whatever the index holds.
\* (Stated as claimed; the code does not meet it.)
C8_ImageReferenceBecomesEmbed ==
    \A n \in 1..Len(written) :
       LET ms == Links(Note(n).text)
       IN  \A x \in 1..Len(ms) :
              IsImageRef(ms[x]) =>
                 Contains(written[n].imaged, S_IMG \o FileOf(ms[x]) \o <<")">>)

\* C9 as claimed: of two or more property blocks the first is deleted and
\* every later one is still in the output body.
C9_LaterBlocksKept ==
    \A n \in 1..Len(written) :
       LET bs == PropertyBlocks(Unstripped(n))
       IN  \A b \in 2..Len(bs) : Contains(written[n].body, bs[b])

\* C9 as amended: every property block of a note is deleted, the later ones
\* as the first: the output body is the text without the characters of any
\* of its blocks, stripped.
C9_EveryBlockRemoved ==
    \A n \in 1..Len(written) :
       written[n].body = strip(OutsideBlocks(Unstripped(n)))

\* C9's case: a note with two property blocks has been written, and its
\* body is shorter than it would be with the second block left in.
C9_Witness ==
    \E n \in 1..Len(written) :
       /\ Len(BlockSpans(Unstripped(n), 1)) >= 2
       /\ ~Contains(written[n].body, PropertyBlocks(Unstripped(n))[2])

\* C10: in a completed run where notes share a cleaned title, the notes of a
\* cleaned title are written to one path, the output folder holds one note
\* file per distinct cleaned title, and that file is the text of the last
\* note with that title. (Stated as claimed; the code does not meet it.)
C10_OneFilePerCleanedTitle ==
    (/\ pc = "done"
     /\ \E n, k \in 1..Len(written) :
           n # k /\ clean_filename(written[n].title) = clean_filename(written[k].title))
    => /\ \A n, k \in 1..Len(written) :
             clean_filename(written[n].title) = clean_filename(written[k].title)
             => written[n].path = written[k].path
       /\ Cardinality(DictKeys(out))
             = Cardinality({clean_filename(written[n].title) : n \in 1..Len(written)})
       /\ \A n \in 1..Len(written) :
             DictGet(out, written[n].path)
                = written[Max(WrittenWithTitle(clean_filename(written[n].title)))].md

====
